---- MODULE Spec2Model ----
(***************************************************************************)
(* Model of hooks.py: the MkDocs lifecycle hooks that resolve translation  *)
(* keys (translate), patch a rendered page (on_post_page) and split the    *)
(* search index per locale (on_post_build).                                *)
(*                                                                         *)
(* A Python str is a sequence of one-character strings, so that            *)
(* startswith, split and strip are computed character by character.        *)
(* Python's None is the one-element sequence <<"None">>, which no str      *)
(* equals because "None" is not a single character.                        *)
(***************************************************************************)
EXTENDS Integers, Sequences, FiniteSets, TLC

VARIABLES
    yaml_translations,     \* lang -> (dotted key -> value), from <docs>/locale/*.yml
    gettext_translations,  \* lang -> catalog (msgid -> msgstr), from <docs>/i18n/<lang>
    theme_language,        \* config["theme"]["language"]
    plugins,               \* config.plugins: plugin name -> plugin, "i18n" among them or not
    files,                 \* the site directory: path -> file text
    dirs,                  \* the site directory: the directories that exist
    builds,                \* number of on_post_build runs so far
    before,                \* the site directory as the last on_post_build found it
    emitted,               \* the paths the last on_post_build wrote
    ret                    \* the last hook call: its arguments and what it returned

vars == <<yaml_translations, gettext_translations, theme_language, plugins,
          files, dirs, builds, before, emitted, ret>>

-----------------------------------------------------------------------------
(* Python values *)

None == <<"None">>

\* bool(x) of a str or None
Truthy(x) == x # None /\ x # <<>>

\* x or y
PyOr(x, y) == IF Truthy(x) THEN x ELSE y

\* s.startswith(p)
startswith(s, p) == Len(p) <= Len(s) /\ SubSeq(s, 1, Len(p)) = p

en == <<"e", "n">>
fr == <<"f", "r">>
de == <<"d", "e">>

-----------------------------------------------------------------------------
(* _build_translator *)

\* config.get("theme", {}).get("language", "en")
default_lang == theme_language

\* translator.gettext(key): the catalog's msgstr, or the msgid itself when
\* the catalog has no entry for it
gettext(translator, key) ==
    IF key \in DOMAIN translator THEN translator[key] ELSE key

\* the catalog tier of translate: the value returned at lines 76 and 84, or
\* None when the tier falls through
catalog_lookup(lang, key) ==
    IF lang \in DOMAIN gettext_translations
    THEN LET value == gettext(gettext_translations[lang], key)
         IN IF Truthy(value) /\ value # key THEN value ELSE None
    ELSE None

\* yaml_translations.get(lang, {})
yaml_get(lang) ==
    IF lang \in DOMAIN yaml_translations THEN yaml_translations[lang] ELSE <<>>

\* a final fallback that yields the empty string on a miss
yaml_default_get_empty(key) ==
    IF key \in DOMAIN yaml_get(default_lang) THEN yaml_get(default_lang)[key] ELSE <<>>

\* yaml_translations.get(default_lang, {}).get(key, key)
yaml_default_get(key) ==
    IF key \in DOMAIN yaml_get(default_lang) THEN yaml_get(default_lang)[key] ELSE key

\* a translate that tries the structured table before the catalog
translate_yaml_first(key, lang) ==
    LET current_lang == PyOr(lang, default_lang)
        yaml_lang    == yaml_get(current_lang)
    IN IF key \in DOMAIN yaml_lang THEN yaml_lang[key]
       ELSE IF catalog_lookup(current_lang, key) # None
            THEN catalog_lookup(current_lang, key)
       ELSE IF key \in DOMAIN yaml_get(default_lang) THEN yaml_get(default_lang)[key]
       ELSE IF catalog_lookup(default_lang, key) # None
            THEN catalog_lookup(default_lang, key)
       ELSE key

translate(key, lang) ==
    LET current_lang == PyOr(lang, default_lang)
        yaml_lang    == yaml_get(current_lang)
    IN IF catalog_lookup(current_lang, key) # None
       THEN catalog_lookup(current_lang, key)
       ELSE IF key \in DOMAIN yaml_lang THEN yaml_lang[key]
       ELSE IF catalog_lookup(default_lang, key) # None
            THEN catalog_lookup(default_lang, key)
       ELSE yaml_default_get(key)

-----------------------------------------------------------------------------
(* The translation tables a build can load *)

\* keys the tables may hold, keys a caller may ask for
TableKeys   == {<<"k">>}
RequestKeys == {<<"k">>, <<"m">>}

\* localized values: empty, equal to the key, or one of two translations
Values == {<<>>, <<"k">>, <<"A">>, <<"B">>}

\* languages that may have a table, languages a caller may ask for
TableLangs   == {en, fr}
RequestLangs == {None, <<>>, en, fr, de}

Tables  == UNION {[D -> Values] : D \in SUBSET TableKeys}
TableSets == UNION {[L -> Tables] : L \in SUBSET TableLangs}

InitTables ==
    /\ yaml_translations \in TableSets
    /\ gettext_translations \in TableSets
    /\ theme_language \in TableLangs

NoCall == [op |-> "none"]

InitTranslate ==
    /\ InitTables
    /\ plugins = <<>>
    /\ files = <<>>
    /\ dirs = {}
    /\ builds = 0
    /\ before = <<>>
    /\ emitted = {}
    /\ ret = NoCall

\* one call of the trans global / filter
Translate(key, lang) ==
    /\ ret' = [op |-> "translate", key |-> key, lang |-> lang,
               value |-> translate(key, lang)]
    /\ UNCHANGED <<yaml_translations, gettext_translations, theme_language,
                   plugins, files, dirs, builds, before, emitted>>

NextTranslate == \E key \in RequestKeys, lang \in RequestLangs : Translate(key, lang)

SpecTranslate == InitTranslate /\ [][NextTranslate]_vars

-----------------------------------------------------------------------------
(* on_post_build: the site directory *)

SEARCH == <<"s", "e", "a", "r", "c", "h">>
SEARCH_INDEX_JSON == <<"s", "e", "a", "r", "c", "h", "_", "i", "n", "d", "e", "x",
                       ".", "j", "s", "o", "n">>

\* paths are relative to site_dir, one element per path segment
\* site_dir / "search" / "search_index.json"
index_path == <<SEARCH, SEARCH_INDEX_JSON>>

\* site_dir / locale / "search" / "search_index.json"
locale_path(locale) == <<locale, SEARCH, SEARCH_INDEX_JSON>>

\* path.parent
parent(path) == SubSeq(path, 1, Len(path) - 1)

\* path.mkdir(parents=True, exist_ok=True): the directory and its ancestors
mkdir_parents(ds, path) == ds \cup {SubSeq(path, 1, n) : n \in 0..Len(path)}

\* A text is [kind, value, fmt]: kind "object" or "array" for the JSON text of
\* a dict or a list, written with the separators fmt names, and "garbage" for
\* a text json.loads rejects.
\* json.dumps(value, ensure_ascii=False) of a dict, in the default separators
json_dumps(value) == [kind |-> "object", value |-> value, fmt |-> "default"]

\* whether json.loads(text) returns rather than raises
json_parses(text) == text.kind # "garbage"

\* json.loads(text), for a text that parses
json_loads(text) == text.value

\* d.get(k, default) of a dict
dict_get(d, k, default) == IF k \in DOMAIN d THEN d[k] ELSE default

\* d with d[k] = v assigned
dict_set(d, k, v) == [x \in DOMAIN d \cup {k} |-> IF x = k THEN v ELSE d[x]]

-----------------------------------------------------------------------------
(* on_post_build: the configuration *)

\* [lang.locale for lang in i18n.config.languages]
languages_of(plugin) == [i \in 1..Len(plugin.languages) |-> plugin.languages[i].locale]

\* next((lang.locale for lang in languages if lang.default), None)
first_default(langs) ==
    IF \E i \in 1..Len(langs) : langs[i].default
    THEN langs[CHOOSE i \in 1..Len(langs) :
                   /\ langs[i].default
                   /\ \A j \in 1..(i - 1) : ~langs[j].default].locale
    ELSE None

\* default_lang of on_post_build (lines 197-199)
build_default_lang(plugin) ==
    IF Truthy(first_default(plugin.languages))
    THEN first_default(plugin.languages)
    ELSE plugin.default_language

-----------------------------------------------------------------------------
(* on_post_build: the partition *)

Slash == <<"/">>

\* the locales other than the default one (line 212's generator)
other_langs(languages, default) ==
    {languages[i] : i \in {j \in 1..Len(languages) : languages[j] # default}}

\* is_lang_doc whose default branch keeps every entry
is_lang_doc_default_all(doc, locale, languages, default) ==
    LET location == dict_get(doc, "location", <<>>)
    IN IF locale = default THEN TRUE
       ELSE startswith(location, locale \o Slash)

\* is_lang_doc whose default branch drops every entry under a known locale code
is_lang_doc_known_codes(doc, locale, languages, default) ==
    LET location == dict_get(doc, "location", <<>>)
    IN IF locale = default
       THEN ~\E lang \in {en, fr, de} \ {default} : startswith(location, lang \o Slash)
       ELSE startswith(location, locale \o Slash)

is_lang_doc(doc, locale, languages, default) ==
    LET location == dict_get(doc, "location", <<>>)
    IN IF locale = default
       THEN ~\E lang \in other_langs(languages, default) :
                 startswith(location, lang \o Slash)
       ELSE startswith(location, locale \o Slash)

\* [doc for doc in docs if is_lang_doc(doc, locale)]
filtered_docs(docs, locale, languages, default) ==
    SelectSeq(docs, LAMBDA doc : is_lang_doc(doc, locale, languages, default))

\* a localized copy that appends the locale to config.lang
localized_append_lang(data, filtered, locale) ==
    LET config == dict_get(data, "config", <<>>)
    IN dict_set(dict_set(data, "docs", filtered), "config",
                dict_set(config, "lang", dict_get(config, "lang", <<>>) \o <<locale>>))

\* a localized copy whose config holds lang alone
localized_fresh_config(data, filtered, locale) ==
    dict_set(dict_set(data, "docs", filtered), "config", [lang |-> <<locale>>])

\* lines 221-224: the copy of the index written for a locale
localized(data, filtered, locale) ==
    LET config == dict_get(data, "config", <<>>)
    IN dict_set(dict_set(data, "docs", filtered), "config",
                dict_set(config, "lang", <<locale>>))

\* line 226
target_path(locale, default) ==
    IF locale = default THEN index_path ELSE locale_path(locale)

\* docs re-read from the index file before each locale
loop_docs_reread(data, fs) ==
    IF index_path \in DOMAIN fs /\ json_parses(fs[index_path])
    THEN dict_get(json_loads(fs[index_path]), "docs", <<>>)
    ELSE <<>>

\* the docs every iteration of the loop filters: line 206, read once
loop_docs(data, fs) == dict_get(data, "docs", <<>>)

\* the for loop of lines 216-228, from its i-th iteration on; st is the site
\* directory so far and the paths written so far
RECURSIVE write_locales(_, _, _, _, _)
write_locales(st, data, languages, default, i) ==
    IF i > Len(languages) THEN st
    ELSE LET locale   == languages[i]
             filtered == filtered_docs(loop_docs(data, st.files), locale, languages, default)
             target   == target_path(locale, default)
         IN IF filtered = <<>>
            THEN write_locales(st, data, languages, default, i + 1)
            ELSE write_locales(
                   [files   |-> dict_set(st.files, target,
                                         json_dumps(localized(data, filtered, locale))),
                    dirs    |-> mkdir_parents(st.dirs, parent(target)),
                    emitted |-> st.emitted \cup {target},
                    raised  |-> FALSE],
                   data, languages, default, i + 1)

\* an except clause that lets the error through
on_parse_failure_raise(st) == [st EXCEPT !.raised = TRUE]

\* lines 203-204: except Exception: return
on_parse_failure(st) == st

\* the whole hook, on a site directory fs / ds
on_post_build(fs, ds, plugs) ==
    LET st0 == [files |-> fs, dirs |-> ds, emitted |-> {}, raised |-> FALSE]
    IN IF index_path \notin DOMAIN fs THEN st0
       ELSE IF "i18n" \notin DOMAIN plugs THEN st0
       ELSE IF ~json_parses(fs[index_path]) THEN on_parse_failure(st0)
       ELSE write_locales(st0, json_loads(fs[index_path]), languages_of(plugs.i18n),
                          build_default_lang(plugs.i18n), 1)

-----------------------------------------------------------------------------
(* on_post_page: the rendered page *)

\* A page's output is a sequence of segments:
\*   text        markup the hook does not look at
\*   config      <script id="__config" type="application/json">payload</script>
\*   trans       a {{ trans('raw') }} placeholder; raw is what the quotes hold
\*   head_close  </head>
\*   inject      the <script>window.__externalLinkModalStrings=...</script> tag
Seg(kind, payload) == [kind |-> kind, payload |-> payload]

\* str.strip()
RECURSIVE lstrip(_)
lstrip(str) == IF str # <<>> /\ Head(str) = " " THEN lstrip(Tail(str)) ELSE str

RECURSIVE rstrip(_)
rstrip(str) ==
    IF str # <<>> /\ str[Len(str)] = " " THEN rstrip(SubSeq(str, 1, Len(str) - 1)) ELSE str

strip(str) == rstrip(lstrip(str))

\* str.split("/"): the pieces between the slashes, empty ones included
RECURSIVE split_slash(_, _)
split_slash(str, piece) ==
    IF str = <<>> THEN <<piece>>
    ELSE IF Head(str) = "/" THEN <<piece>> \o split_slash(Tail(str), <<>>)
    ELSE split_slash(Tail(str), Append(piece, Head(str)))

\* [p for p in (page.url or "").split("/") if p]
url_parts(url) ==
    SelectSeq(split_slash(PyOr(url, <<>>), <<>>), LAMBDA part : part # <<>>)

\* lines 137-140
base_depth(parts, page_locale) ==
    IF parts # <<>> /\ parts[1] = page_locale THEN Len(parts) - 1 ELSE Len(parts)

\* "../" * depth
RECURSIVE dotdots(_)
dotdots(depth) == IF depth <= 0 THEN <<>> ELSE <<".", ".", "/">> \o dotdots(depth - 1)

\* "../" * depth or "."
new_base_of(depth) == PyOr(dotdots(depth), <<".">>)

\* json.dumps(cfg, separators=(",", ":"))
json_dumps_compact(value) == [kind |-> "object", value |-> value, fmt |-> "compact"]

\* re.search: the position of the first __config script, 0 when there is none
config_at(output) ==
    IF \E i \in 1..Len(output) : output[i].kind = "config"
    THEN CHOOSE i \in 1..Len(output) :
             /\ output[i].kind = "config"
             /\ \A j \in 1..(i - 1) : output[j].kind # "config"
    ELSE 0

\* an except clause that lets the error through
on_config_error_raise(output) == [output |-> output, raised |-> TRUE]

\* lines 150-151: except Exception: pass
on_config_error(output) == [output |-> output, raised |-> FALSE]

\* lines 143-151: json.loads raises on a payload that is no JSON, and
\* cfg["base"] = ... raises on a payload that is JSON but no object
adjust_base(output, new_base) ==
    LET m == config_at(output)
    IN IF m = 0 THEN [output |-> output, raised |-> FALSE]
       ELSE IF ~json_parses(output[m].payload) THEN on_config_error(output)
       ELSE IF output[m].payload.kind # "object" THEN on_config_error(output)
       ELSE [output |-> [output EXCEPT ![m].payload =
                            json_dumps_compact(dict_set(json_loads(output[m].payload),
                                                        "base", new_base))],
             raised |-> FALSE]

\* default_lang of on_post_page (lines 128-131)
page_default_lang(plugin) ==
    IF first_default(plugin.languages) # None
    THEN first_default(plugin.languages)
    ELSE default_lang

\* getattr(page.file, "locale", None) or default_lang
page_locale_of(page, plugin) == PyOr(page.locale, page_default_lang(plugin))

\* re.sub of line 161
render_trans(output, lang) ==
    [i \in 1..Len(output) |->
        IF output[i].kind = "trans"
        THEN Seg("text", translate(strip(output[i].payload), lang))
        ELSE output[i]]

ELM == <<"e", "x", "t", "e", "r", "n", "a", "l", "_", "l", "i", "n", "k", "_",
         "m", "o", "d", "a", "l", ".">>

\* lines 164-171
injection(lang) ==
    Seg("inject",
        [lang |-> lang,
         strings |->
            [header   |-> translate(ELM \o <<"h", "e", "a", "d", "e", "r">>, lang),
             message  |-> translate(ELM \o <<"m", "e", "s", "s", "a", "g", "e">>, lang),
             cancel   |-> translate(ELM \o <<"c", "a", "n", "c", "e", "l">>, lang),
             continue |-> translate(ELM \o <<"c", "o", "n", "t", "i", "n", "u", "e">>,
                                    lang)]])

\* output.find("</head>"), 0 when there is none
head_close_at(output) ==
    IF \E i \in 1..Len(output) : output[i].kind = "head_close"
    THEN CHOOSE i \in 1..Len(output) :
             /\ output[i].kind = "head_close"
             /\ \A j \in 1..(i - 1) : output[j].kind # "head_close"
    ELSE 0

\* lines 172-177
inject(output, lang) ==
    LET h == head_close_at(output)
    IN IF h # 0
       THEN SubSeq(output, 1, h - 1) \o <<injection(lang)>> \o SubSeq(output, h, Len(output))
       ELSE <<injection(lang)>> \o output

\* lines 153-177, after the base path was adjusted
render_and_inject(adjusted, lang) ==
    IF adjusted.raised THEN adjusted
    ELSE [output |-> inject(render_trans(adjusted.output, lang), lang), raised |-> FALSE]

\* the page argument when it is None: it has no url and no file
NoPage == [none |-> TRUE]

\* the whole hook; page is NoPage or holds page.url and page.file.locale
on_post_page(output, page, plugs) ==
    IF "i18n" \notin DOMAIN plugs \/ page = NoPage
    THEN [output |-> output, raised |-> FALSE]
    ELSE LET page_locale == page_locale_of(page, plugs.i18n)
             new_base    == new_base_of(base_depth(url_parts(page.url), page_locale))
         IN IF page_locale # page_default_lang(plugs.i18n)
            THEN render_and_inject(adjust_base(output, new_base), page_locale)
            ELSE render_and_inject([output |-> output, raised |-> FALSE], page_locale)

-----------------------------------------------------------------------------
(* The site directories and configurations a build can meet *)

MaxDocs   == 2    \* entries of the combined index
MaxLangs  == 2    \* configured locales
MaxBuilds == 2    \* runs of on_post_build on one site directory

Locales == {en, fr, de}

\* locations: a root page, pages under a locale prefix, a page whose name
\* merely begins with a locale code
Locations == {<<"p">>, en \o Slash \o <<"p">>, fr \o Slash \o <<"p">>,
              de \o Slash \o <<"p">>, fr \o <<"p">>}

\* the i-th entry of an index: its title tells the entries apart
Entry(loc, i) ==
    [x \in {"location", "title"} |-> IF x = "location" THEN loc ELSE <<i>>]

DocLists ==
    UNION {{[i \in 1..n |-> Entry(f[i], i)] : f \in [1..n -> Locations]} : n \in 0..MaxDocs}

ConfigIn == [lang |-> <<en>>, separator |-> <<" ">>]

\* index documents: the search plugin's {config, docs}, with one more
\* top-level field, without config, or without docs
IndexDocs ==
    {[x \in {"config", "docs", "version"} |->
         IF x = "docs" THEN d ELSE IF x = "config" THEN ConfigIn ELSE <<"1">>]
       : d \in DocLists}
    \cup {[x \in {"docs"} |-> d] : d \in DocLists}
    \cup {[x \in {"config"} |-> ConfigIn]}

\* the texts an index file may hold: JSON in the search plugin's compact
\* separators, or something json.loads rejects
IndexTexts ==
    {[kind |-> "object", value |-> v, fmt |-> "compact"] : v \in IndexDocs}
    \cup {[kind |-> "garbage", value |-> <<>>, fmt |-> "none"]}

\* a per-locale index left by an earlier build
StaleText ==
    json_dumps([docs |-> <<Entry(fr \o Slash \o <<"o">>, 1)>>,
                config |-> [lang |-> <<fr>>]])

\* the configured languages: the d-th one is flagged default, none when d = 0
LangLists ==
    UNION {{[i \in 1..n |-> [locale |-> l[i], default |-> (i = d)]]
              : l \in [1..n -> Locales], d \in 0..n} : n \in 0..MaxLangs}

\* config.default_language is read only when no language is flagged default
I18nPlugins ==
    UNION {{[languages |-> ls, default_language |-> dl]
              : dl \in {x \in {en, None} : x = en \/ first_default(ls) = None}}
             : ls \in LangLists}

\* the directories a set of files needs
dirs_of(paths) == UNION {mkdir_parents({}, parent(p)) : p \in paths} \cup {<<>>}

\* a fresh build holds the combined index alone; a build over an earlier
\* site directory (mkdocs build --dirty) also meets that build's files
InitSite ==
    \E paths \in SUBSET {index_path, locale_path(fr)} :
        /\ \E text \in IndexTexts :
               /\ files = [p \in paths |-> IF p = index_path THEN text ELSE StaleText]
        /\ dirs = dirs_of(paths)

InitPlugins ==
    \/ plugins = <<>>
    \/ \E plugin \in I18nPlugins : plugins = [i18n |-> plugin]

InitBuild ==
    /\ InitSite
    /\ InitPlugins
    /\ yaml_translations = <<>>
    /\ gettext_translations = <<>>
    /\ theme_language = en
    /\ builds = 0
    /\ before = [files |-> <<>>, dirs |-> {}]
    /\ emitted = {}
    /\ ret = NoCall

\* the build-completion event: one run of the hook
PostBuild ==
    /\ builds < MaxBuilds
    /\ \E st \in {on_post_build(files, dirs, plugins)} :
          /\ files' = st.files
          /\ dirs' = st.dirs
          /\ emitted' = st.emitted
          /\ ret' = [op |-> "on_post_build", raised |-> st.raised]
    /\ before' = [files |-> files, dirs |-> dirs]
    /\ builds' = builds + 1
    /\ UNCHANGED <<yaml_translations, gettext_translations, theme_language, plugins>>

NextBuild == PostBuild

SpecBuild == InitBuild /\ [][NextBuild]_vars

-----------------------------------------------------------------------------
(* The pages a build can render *)

MaxSegs == 3    \* segments of a page's output

GarbageText == [kind |-> "garbage", value |-> <<>>, fmt |-> "none"]
ArrayText   == [kind |-> "array", value |-> <<>>, fmt |-> "compact"]
ConfigText  == [kind |-> "object", fmt |-> "spaced",
                value |-> [base |-> <<".", ".">>, search |-> <<"w">>]]

Segments ==
    {Seg("text", <<"x">>), Seg("head_close", <<>>), Seg("trans", <<" ", "k", " ">>),
     Seg("config", GarbageText), Seg("config", ArrayText), Seg("config", ConfigText)}

Outputs == UNION {[1..n -> Segments] : n \in 0..MaxSegs}

Urls == {None, fr \o Slash, fr \o Slash \o <<"a">> \o Slash, <<"a">> \o Slash}

Pages == [url : Urls, locale : {None, en, fr}]

\* i18n with en flagged default, and with no language flagged
PagePlugins ==
    {[languages |-> <<[locale |-> en, default |-> TRUE], [locale |-> fr, default |-> FALSE]>>,
      default_language |-> en],
     [languages |-> <<[locale |-> en, default |-> FALSE], [locale |-> fr, default |-> FALSE]>>,
      default_language |-> en]}

InitPage ==
    /\ \/ plugins = <<>>
       \/ \E plugin \in PagePlugins : plugins = [i18n |-> plugin]
    /\ \/ yaml_translations = <<>>
       \/ yaml_translations = [l \in {fr} |-> [k \in {<<"k">>} |-> <<"A">>]]
    /\ gettext_translations = <<>>
    /\ theme_language \in {en, fr}
    /\ files = <<>>
    /\ dirs = {}
    /\ builds = 0
    /\ before = [files |-> <<>>, dirs |-> {}]
    /\ emitted = {}
    /\ ret = NoCall

\* the page event: one run of the hook on a rendered page
PostPage(output, page) ==
    /\ \E r \in {on_post_page(output, page, plugins)} :
           ret' = [op |-> "on_post_page", output_in |-> output, page |-> page,
                   output |-> r.output, raised |-> r.raised]
    /\ UNCHANGED <<yaml_translations, gettext_translations, theme_language, plugins,
                   files, dirs, builds, before, emitted>>

\* every page is rendered, and post-processed, once
NextPage ==
    /\ ret = NoCall
    /\ \/ \E output \in Outputs, page \in Pages : PostPage(output, page)
       \/ \E output \in Outputs : PostPage(output, NoPage)

SpecPage == InitPage /\ [][NextPage]_vars

-----------------------------------------------------------------------------
(* Claims about on_post_page *)

\* the hook ran on a page, with i18n configured
PageHooked ==
    /\ ret.op = "on_post_page"
    /\ "i18n" \in DOMAIN plugins
    /\ ret.page # NoPage

PageLocale  == page_locale_of(ret.page, plugins.i18n)
PageDefault == page_default_lang(plugins.i18n)

\* the page has a __config script whose payload json.loads rejects
ConfigUnparseable ==
    /\ config_at(ret.output_in) # 0
    /\ ~json_parses(ret.output_in[config_at(ret.output_in)].payload)

ConfigSegs(output) == SelectSeq(output, LAMBDA seg : seg.kind = "config")
NotInjected(output) == SelectSeq(output, LAMBDA seg : seg.kind # "inject")

\* C9 as claimed: when the __config payload does not parse on a page of a
\* non-default locale, the hook raises nothing and returns the output
\* unchanged; on a page of the default locale the base-path rewrite does not
\* touch the output
C9_OutputUnchanged ==
    PageHooked =>
        /\ (PageLocale # PageDefault /\ ConfigUnparseable) =>
               ~ret.raised /\ ret.output = ret.output_in
        /\ PageLocale = PageDefault =>
               ConfigSegs(ret.output) = ConfigSegs(ret.output_in)

\* C9 amended: in both cases the hook raises nothing and the __config scripts
\* are returned as they came; the returned output is the input with every
\* trans placeholder replaced by text and one script tag injected
C9_ConfigUnchanged ==
    (PageHooked /\ (PageLocale = PageDefault \/ ConfigUnparseable)) =>
        /\ ~ret.raised
        /\ ConfigSegs(ret.output) = ConfigSegs(ret.output_in)
        /\ Len(ret.output) = Len(ret.output_in) + 1
        /\ LET rest == NotInjected(ret.output)
           IN /\ Len(rest) = Len(ret.output_in)
              /\ \A i \in 1..Len(rest) :
                     IF ret.output_in[i].kind = "trans"
                     THEN rest[i].kind = "text"
                     ELSE rest[i] = ret.output_in[i]

C9_Witness ==
    /\ PageHooked
    /\ PageLocale = fr
    /\ PageDefault = en
    /\ ConfigUnparseable
    /\ ret.page.url = fr \o Slash \o <<"a">> \o Slash
    /\ ~ret.raised
    /\ \E i \in 1..Len(ret.output_in) :
           /\ ret.output_in[i].kind = "trans"
           /\ NotInjected(ret.output)[i] = Seg("text", <<"A">>)

-----------------------------------------------------------------------------
(* Claims about on_post_build *)

\* the last run found an index
IndexFound == index_path \in DOMAIN before.files

\* the last run went through the loop: index found, i18n configured, JSON parsed
Partitioned ==
    /\ builds >= 1
    /\ IndexFound
    /\ "i18n" \in DOMAIN plugins
    /\ json_parses(before.files[index_path])

OrigData == json_loads(before.files[index_path])
OrigDocs == dict_get(OrigData, "docs", <<>>)
Configured == {plugins.i18n.languages[i].locale : i \in 1..Len(plugins.i18n.languages)}
DefaultLang == build_default_lang(plugins.i18n)
NonDefault == Configured \ {DefaultLang}

InSeq(e, seq) == \E i \in 1..Len(seq) : seq[i] = e
DocsOf(text) == dict_get(json_loads(text), "docs", <<>>)
LocationOf(doc) == dict_get(doc, "location", <<>>)
Under(doc, locale) == startswith(LocationOf(doc), locale \o Slash)

\* the emitted files that hold an entry
HoldersOf(doc) == {p \in emitted : InSeq(doc, DocsOf(files[p]))}

\* C3: after a run on a parseable index, every original entry is in the docs
\* of at most one emitted file, and an entry under "<C>/" for a configured
\* non-default locale C is in no emitted file but C's
C3_AtMostOnePartition ==
    Partitioned =>
        \A i \in 1..Len(OrigDocs) :
            /\ Cardinality(HoldersOf(OrigDocs[i])) <= 1
            /\ \A C \in NonDefault :
                   Under(OrigDocs[i], C) => HoldersOf(OrigDocs[i]) \subseteq {locale_path(C)}

C3_Witness ==
    /\ Partitioned
    /\ builds = 1
    /\ emitted = {index_path, locale_path(fr)}
    /\ \E i \in 1..Len(OrigDocs) :
           Under(OrigDocs[i], fr) /\ HoldersOf(OrigDocs[i]) = {locale_path(fr)}

\* the original entries under the prefix of a locale that is not configured
UnconfiguredEntries ==
    {OrigDocs[i] : i \in {j \in 1..Len(OrigDocs) :
                            \E X \in Locales \ Configured : Under(OrigDocs[j], X)}}

\* C4 as claimed: an entry under "<X>/" for a locale X that is not configured
\* is in no file the run wrote, the default locale's included
C4_UnconfiguredExcluded ==
    Partitioned => \A doc \in UnconfiguredEntries : HoldersOf(doc) = {}

\* C4 amended: an entry under "<X>/" for a locale X that is not configured is
\* in no non-default locale's file, and when the default locale is configured
\* it is in the default locale's file at the original path
C4_UnconfiguredInDefault ==
    Partitioned =>
        \A doc \in UnconfiguredEntries :
            /\ HoldersOf(doc) \subseteq {index_path}
            /\ DefaultLang \in Configured => HoldersOf(doc) = {index_path}

C4_Witness ==
    /\ Partitioned
    /\ builds = 1
    /\ Configured = {en, fr}
    /\ DefaultLang = en
    /\ \E doc \in UnconfiguredEntries : Under(doc, de) /\ HoldersOf(doc) = {index_path}

\* C5 as claimed: whenever a run completes on a parseable index with i18n
\* configured, the file at the original path holds no entry under "<L>/" for
\* a configured non-default locale L, and every non-default locale's entries
\* are in the file under that locale's directory
C5_RootHoldsDefaultPartition ==
    Partitioned =>
        /\ \A L \in NonDefault :
               \A i \in 1..Len(DocsOf(files[index_path])) :
                   ~Under(DocsOf(files[index_path])[i], L)
        /\ \A L \in NonDefault :
               \A i \in 1..Len(OrigDocs) :
                   Under(OrigDocs[i], L) =>
                       /\ locale_path(L) \in DOMAIN files
                       /\ InSeq(OrigDocs[i], DocsOf(files[locale_path(L)]))

\* C6: when the index is missing or does not parse, the run raises nothing,
\* writes nothing and leaves the site directory as it found it
C6_NoOpOnBadIndex ==
    (builds >= 1 /\ (IndexFound => ~json_parses(before.files[index_path]))) =>
        /\ ~ret.raised
        /\ emitted = {}
        /\ files = before.files
        /\ dirs = before.dirs

C6_Witness ==
    /\ builds = 1
    /\ IndexFound
    /\ ~json_parses(before.files[index_path])
    /\ locale_path(fr) \in DOMAIN files
    /\ "i18n" \in DOMAIN plugins
    /\ Configured = {en, fr}

\* config.lang of an index text, None when it has none
LangOf(text) == dict_get(dict_get(json_loads(text), "config", <<>>), "lang", None)

\* C7: a second run with the same configuration leaves the file at the
\* original path with the same docs and config.lang, and the per-locale files
\* of the first run as they were
C7_SecondRunSame ==
    builds = 2 =>
        /\ DOMAIN files = DOMAIN before.files
        /\ \A p \in DOMAIN files \ {index_path} : files[p] = before.files[p]
        /\ (IndexFound /\ json_parses(before.files[index_path])) =>
               /\ json_parses(files[index_path])
               /\ DocsOf(files[index_path]) = DocsOf(before.files[index_path])
               /\ LangOf(files[index_path]) = LangOf(before.files[index_path])

C7_Witness ==
    /\ builds = 2
    /\ index_path \in emitted
    /\ locale_path(fr) \in DOMAIN files
    /\ files[locale_path(fr)] # StaleText
    /\ before.files[index_path].fmt = "default"

\* the locale an emitted path belongs to
LocaleOfPath(p) == IF p = index_path THEN DefaultLang ELSE p[1]

\* C8: an emitted file is the original document with docs a non-empty
\* sub-sequence of the original entries, in their order, and config.lang the
\* one-element list of its locale; every other field is the original's
C8_EmittedIsLocalizedCopy ==
    Partitioned =>
        \A p \in emitted :
            /\ json_parses(files[p])
            /\ LET doc    == json_loads(files[p])
                   config == dict_get(OrigData, "config", <<>>)
               IN /\ DOMAIN doc = DOMAIN OrigData \cup {"docs", "config"}
                  /\ \A k \in DOMAIN OrigData \ {"docs", "config"} : doc[k] = OrigData[k]
                  /\ doc.docs # <<>>
                  /\ doc.docs = SelectSeq(OrigDocs, LAMBDA e : InSeq(e, doc.docs))
                  /\ \A i \in 1..Len(doc.docs) :
                         IF p = index_path
                         THEN \A L \in NonDefault : ~Under(doc.docs[i], L)
                         ELSE Under(doc.docs[i], LocaleOfPath(p))
                  /\ DOMAIN doc.config = DOMAIN config \cup {"lang"}
                  /\ doc.config.lang = <<LocaleOfPath(p)>>
                  /\ \A k \in DOMAIN config \ {"lang"} : doc.config[k] = config[k]

C8_Witness ==
    /\ Partitioned
    /\ builds = 1
    /\ locale_path(fr) \in emitted
    /\ "version" \in DOMAIN OrigData
    /\ Len(OrigDocs) > Len(DocsOf(files[locale_path(fr)]))

\* the orders the configured locales can be listed in
Orders(seq) ==
    {[i \in 1..Len(seq) |-> seq[pi[i]]] : pi \in Permutations(1..Len(seq))}

\* C10: listing the same locales in another order, with the same default,
\* produces the same files with the same contents
C10_OrderIndependent ==
    Partitioned =>
        \A order \in Orders(languages_of(plugins.i18n)) :
            write_locales([files |-> before.files, dirs |-> before.dirs,
                           emitted |-> {}, raised |-> FALSE],
                          OrigData, order, DefaultLang, 1)
              = [files |-> files, dirs |-> dirs, emitted |-> emitted, raised |-> FALSE]

C10_Witness ==
    /\ Partitioned
    /\ builds = 1
    /\ languages_of(plugins.i18n) = <<en, fr>>
    /\ DefaultLang = en
    /\ emitted = {index_path, locale_path(fr)}

-----------------------------------------------------------------------------
(* Claims about translate *)

Translated == ret.op = "translate"

\* the language a call asks for: the default one when lang is omitted
Requested == IF ret.lang = None THEN theme_language ELSE ret.lang

InCatalog(lang, key) ==
    lang \in DOMAIN gettext_translations /\ key \in DOMAIN gettext_translations[lang]

InStructured(lang, key) ==
    lang \in DOMAIN yaml_translations /\ key \in DOMAIN yaml_translations[lang]

\* the chain as claimed: a catalog value counts when it exists and differs
\* from the key
ClaimedChain(key, lang, default) ==
    IF InCatalog(lang, key) /\ gettext_translations[lang][key] # key
    THEN gettext_translations[lang][key]
    ELSE IF InStructured(lang, key) THEN yaml_translations[lang][key]
    ELSE IF InCatalog(default, key) /\ gettext_translations[default][key] # key
    THEN gettext_translations[default][key]
    ELSE IF InStructured(default, key) THEN yaml_translations[default][key]
    ELSE key

\* the chain as amended: a catalog value counts when it exists, is not empty
\* and differs from the key
NonEmptyChain(key, lang, default) ==
    IF InCatalog(lang, key) /\ gettext_translations[lang][key] \notin {key, <<>>}
    THEN gettext_translations[lang][key]
    ELSE IF InStructured(lang, key) THEN yaml_translations[lang][key]
    ELSE IF InCatalog(default, key) /\ gettext_translations[default][key] \notin {key, <<>>}
    THEN gettext_translations[default][key]
    ELSE IF InStructured(default, key) THEN yaml_translations[default][key]
    ELSE key

\* C1 as claimed: translate returns the first hit of catalog(lang),
\* structured(lang), catalog(default), structured(default), key, where a
\* catalog hit is a value that exists and differs from the key
C1_ChainAsClaimed ==
    Translated => ret.value = ClaimedChain(ret.key, Requested, theme_language)

\* C1 amended: the same chain, where a catalog hit is a value that exists, is
\* not the empty string and differs from the key
C1_Chain ==
    Translated => ret.value = NonEmptyChain(ret.key, Requested, theme_language)

C1_Witness ==
    /\ Translated
    /\ ret.key = <<"k">>
    /\ ret.lang = fr
    /\ theme_language = en
    /\ InCatalog(fr, <<"k">>) /\ gettext_translations[fr][<<"k">>] = <<>>
    /\ ~InStructured(fr, <<"k">>)
    /\ InCatalog(en, <<"k">>) /\ gettext_translations[en][<<"k">>] = <<"k">>
    /\ InStructured(en, <<"k">>)
    /\ ret.value = yaml_translations[en][<<"k">>]
    /\ ret.value = <<"B">>

\* C2: a key that no table of any language holds is returned as it is,
\* whatever language is asked for
C2_IdentityFallback ==
    (Translated /\ \A lang \in TableLangs \cup RequestLangs :
                       ~InCatalog(lang, ret.key) /\ ~InStructured(lang, ret.key))
        => ret.value = ret.key

C2_Witness ==
    /\ Translated
    /\ ret.key = <<"k">>
    /\ ret.lang = de
    /\ DOMAIN gettext_translations = {en, fr}
    /\ DOMAIN yaml_translations = {en, fr}
    /\ \A lang \in {en, fr} : ~InCatalog(lang, ret.key) /\ ~InStructured(lang, ret.key)
    /\ ret.value = <<"k">>

====
